---- MODULE Spec2Model ----
(***************************************************************************)
(* Model of app.py: the Streamlit page "Brain Tumor Detection & ChatBot".  *)
(*                                                                         *)
(* Streamlit re-executes the whole script on every user interaction, so    *)
(* every action below is one complete run of the script: it rebuilds the   *)
(* rendered page (screen) and the run's local variables from the widget    *)
(* state.  State kept between runs is the widget state (app_mode,          *)
(* symptom_selection, uploaded_file) and st.session_state (chat_session).  *)
(* Widgets that a run does not render lose their state, so changing the    *)
(* mode resets the check boxes and the uploaded file.                      *)
(*                                                                         *)
(* External libraries (keras, LIME, wikipedia, pyttsx3, pydicom, PIL,      *)
(* Gemini) are inputs: each call either returns or raises, chosen with \E. *)
(* Percentages are Python floats in the source; they are kept here as      *)
(* exact fractions [num, den] (match_count * 100 over len(symptom_list)).  *)
(***************************************************************************)
EXTENDS Integers, Sequences, FiniteSets, TLC

VARIABLES
    app_mode,           \* st.sidebar.radio value
    symptom_selection,  \* symptom -> BOOLEAN, the check boxes
    uploaded_file,      \* the file in the uploader, NoFile when empty
    chat_session,       \* st.session_state.chat_session: <<>> or <<history>>
    button,             \* the st.button that is True in this run, "" when none
    user_prompt,        \* st.chat_input of this run: <<>> or <<text>>
    screen,             \* what this run rendered, in order
    probabilities,      \* <<>> or <<dict condition -> fraction>> of this run
    valid,              \* <<>> or <<value is_valid_mri returned in this run>>
    result,             \* <<>> or <<[tumor_type, confidence]>> returned by predict
    calls               \* calls this run made to external services, with outcomes

vars == <<app_mode, symptom_selection, uploaded_file, chat_session, button,
          user_prompt, screen, probabilities, valid, result, calls>>

----------------------------------------------------------------------------
(* Static data *)

Modes == {"Diagnosis Test", "Tumor Detection", "HELP ASSIST"}

categories == <<"glioma", "meningioma", "no tumor", "pituitary">>

ConditionKeys == <<"Glioma", "Meningioma", "No Tumor", "Pituitary Tumor">>

Conditions == {ConditionKeys[i] : i \in 1..Len(ConditionKeys)}

symptoms ==
    [c \in Conditions |->
        CASE c = "Glioma" ->
                <<"Headaches",
                  "Seizures",
                  "Vision problems",
                  "Nausea and vomiting",
                  "Difficulty with balance and coordination",
                  "Changes in personality or behavior",
                  "Weakness or numbness in limbs">>
          [] c = "Meningioma" ->
                <<"Headaches",
                  "Seizures",
                  "Vision changes",
                  "Hearing loss or ringing in the ears",
                  "Nausea and vomiting",
                  "Weakness or numbness",
                  "Difficulty with speech or movement">>
          [] c = "No Tumor" ->
                <<"No specific symptoms related to a tumor; symptoms are typically related to other conditions.">>
          [] c = "Pituitary Tumor" ->
                <<"Headaches",
                  "Vision problems",
                  "Unexplained weight gain or loss",
                  "Changes in menstrual cycle or sexual function",
                  "Growth of hands and feet (in case of acromegaly)",
                  "Fatigue",
                  "Changes in mood or cognitive functions">>]

----------------------------------------------------------------------------
(* Helpers for Python lists and screen elements *)

InList(x, list) == \E i \in 1..Len(list) : list[i] = x

RECURSIVE AppendNew(_, _)
\* the inner loop of the check-box construction: add each symptom not yet a key
AppendNew(keys, list) ==
    IF list = <<>> THEN keys
    ELSE AppendNew(IF InList(Head(list), keys) THEN keys ELSE Append(keys, Head(list)),
                   Tail(list))

RECURSIVE KeysFrom(_, _)
KeysFrom(keys, i) ==
    IF i > Len(ConditionKeys) THEN keys
    ELSE KeysFrom(AppendNew(keys, symptoms[ConditionKeys[i]]), i + 1)

\* the keys of the dict symptom_selection, in insertion order
SymptomKeys == KeysFrom(<<>>, 1)

AllSymptoms == {SymptomKeys[i] : i \in 1..Len(SymptomKeys)}

RECURSIVE Join(_, _)
\* sep.join(list)
Join(list, sep) ==
    IF list = <<>> THEN ""
    ELSE IF Len(list) = 1 THEN list[1]
    ELSE list[1] \o sep \o Join(Tail(list), sep)

\* one rendered element: the widget, its fixed text, its argument, its number
El(w, msg, arg, val) == [w |-> w, msg |-> msg, arg |-> arg, val |-> val]

----------------------------------------------------------------------------
(* Fractions standing for the float percentages *)

Frac(n, d) == [num |-> n, den |-> d]

FracEq(p, q) == p.num * q.den = q.num * p.den

FracLess(p, q) == p.num * q.den < q.num * p.den

\* f"{probability:.2f}": the percentage in hundredths, rounded to nearest
Fmt2(p) == (2 * 100 * p.num + p.den) \div (2 * p.den)

----------------------------------------------------------------------------
(* Diagnosis Test *)

\* selected_symptoms = [symptom for symptom, selected in symptom_selection.items() if selected]
SelectedSymptoms(sel) == SelectSeq(SymptomKeys, LAMBDA s : sel[s])

\* match_count = sum(1 for symptom in selected_symptoms if symptom in symptom_list)
MatchCount(selected_symptoms, symptom_list) ==
    Len(SelectSeq(selected_symptoms, LAMBDA s : InList(s, symptom_list)))

\* the percentage taken over the number of ticked symptoms instead of the list
ProbabilityOverSelected(selected_symptoms, symptom_list) ==
    Frac(MatchCount(selected_symptoms, symptom_list) * 100, Len(selected_symptoms))

\* probability = (match_count / len(symptom_list)) * 100
Probability(selected_symptoms, symptom_list) ==
    Frac(MatchCount(selected_symptoms, symptom_list) * 100, Len(symptom_list))

\* the dict probabilities after the scoring loop
Score(selected_symptoms) ==
    [c \in Conditions |-> Probability(selected_symptoms, symptoms[c])]

\* max(probabilities.values())
MaxProb(probs) ==
    probs[CHOOSE c \in Conditions : \A d \in Conditions : ~FracLess(probs[c], probs[d])]

\* list(probabilities.values()).count(max_prob)
CountOf(probs, max_prob) == Cardinality({c \in Conditions : FracEq(probs[c], max_prob)})

\* the lines "condition: probability%" in dict order
ResultLines(probs) ==
    [i \in 1..Len(ConditionKeys) |->
        El("write", "{condition}: {probability:.2f}%", ConditionKeys[i],
           Fmt2(probs[ConditionKeys[i]]))]

\* a tie branch that names the first condition at the maximum as the winner
TieWarningsFirstWins(probs) ==
    IF FracEq(MaxProb(probs), Frac(0, 1))
    THEN <<El("warning",
              "No matching conditions found. Please consult a doctor for further evaluation.",
              "", 0)>>
    ELSE <<El("write", "Most likely condition: {condition}",
              CHOOSE c \in Conditions : FracEq(probs[c], MaxProb(probs)), 0)>>

\* the tie / zero branch after the result lines
TieWarnings(probs) ==
    IF CountOf(probs, MaxProb(probs)) > 1
    THEN <<El("warning",
              "There may be a clash between multiple conditions. Please consult a doctor.",
              "", 0)>>
    ELSE IF FracEq(MaxProb(probs), Frac(0, 1))
    THEN <<El("warning",
              "No matching conditions found. Please consult a doctor for further evaluation.",
              "", 0)>>
    ELSE <<>>

\* a handler that scores whatever is selected, the empty selection included
ScoresAlways(selected_symptoms) == TRUE

\* whether the Diagnose handler takes its else branch and scores
Scores(selected_symptoms) == selected_symptoms # <<>>

\* what the Diagnose handler renders
DiagnoseScreen(selected_symptoms) ==
    IF ~Scores(selected_symptoms)
    THEN <<El("warning", "Please select at least one symptom.", "", 0)>>
    ELSE <<El("write", "Selected Symptoms: {}", Join(selected_symptoms, ", "), 0)>>
         \o <<El("write", "Diagnosis Result:", "", 0)>>
         \o ResultLines(Score(selected_symptoms))
         \o TieWarnings(Score(selected_symptoms))

DiagnosisHeader ==
    <<El("header", "Diagnosis Test", "", 0),
      El("write", "Please select the symptoms you are experiencing.", "", 0)>>

NoFile == [dcm |-> "none", modality |-> "none", raster |-> "none"]

NoSelection == [s \in AllSymptoms |-> FALSE]

Init ==
    /\ app_mode = "Diagnosis Test"
    /\ symptom_selection = NoSelection
    /\ uploaded_file = NoFile
    /\ chat_session = <<>>
    /\ button = ""
    /\ user_prompt = <<>>
    /\ screen = DiagnosisHeader
    /\ probabilities = <<>>
    /\ valid = <<>>
    /\ result = <<>>
    /\ calls = <<>>

\* the user ticks or unticks one check box; the run renders the form only
ToggleSymptom(s) ==
    /\ app_mode = "Diagnosis Test"
    /\ symptom_selection' = [symptom_selection EXCEPT ![s] = ~@]
    /\ button' = ""
    /\ screen' = DiagnosisHeader
    /\ probabilities' = <<>>
    /\ UNCHANGED <<app_mode, uploaded_file, chat_session, user_prompt, valid, result, calls>>

\* the user presses Diagnose
Diagnose ==
    /\ app_mode = "Diagnosis Test"
    /\ LET selected_symptoms == SelectedSymptoms(symptom_selection) IN
        /\ screen' = DiagnosisHeader \o DiagnoseScreen(selected_symptoms)
        /\ probabilities' = IF Scores(selected_symptoms)
                            THEN <<Score(selected_symptoms)>> ELSE <<>>
    /\ button' = "Diagnose"
    /\ UNCHANGED <<app_mode, symptom_selection, uploaded_file, chat_session,
                   user_prompt, valid, result, calls>>

----------------------------------------------------------------------------
(* Tumor Detection: the uploaded file and the validator *)

\* What the libraries do with an uploaded file.  dcm: pydicom.dcmread(force=True)
\* returns ("ok") or raises; modality: the dataset's Modality tag, "absent" when
\* reading it raises AttributeError; raster: PIL Image.open returns or raises.
Files ==
    {[dcm |-> "raise", modality |-> "absent", raster |-> r] : r \in {"ok", "raise"}}
    \cup {[dcm |-> "ok", modality |-> m, raster |-> r] :
             m \in {"MR", "CT", "absent"}, r \in {"ok", "raise"}}

\* the text of the exception Image.open raises on this file
RasterError(file) == "UnidentifiedImageError: cannot identify image file"

\* whether the outer try block ends in its except clause
DicomRaises(file) == file.dcm = "raise" \/ file.modality = "absent"

ValidationWarning(e) == El("warning", "Image validation failed: {e}", e, 0)

\* the validator without its inner except clause: the decode error is neither
\* turned into a warning nor caught
is_valid_mri_unguarded(file) ==
    IF ~DicomRaises(file)
    THEN [raised |-> FALSE, ret |-> file.modality = "MR", screen |-> <<>>]
    ELSE IF file.raster = "ok"
    THEN [raised |-> FALSE, ret |-> TRUE, screen |-> <<>>]
    ELSE [raised |-> TRUE, ret |-> FALSE, screen |-> <<>>]

\* the validator with an inner except clause that drops the decode error
is_valid_mri_silent(file) ==
    IF ~DicomRaises(file)
    THEN [raised |-> FALSE, ret |-> file.modality = "MR", screen |-> <<>>]
    ELSE [raised |-> FALSE, ret |-> file.raster = "ok", screen |-> <<>>]

\* is_valid_mri(file): whether an exception leaves it, the value returned and the
\* warnings it renders
is_valid_mri(file) ==
    IF ~DicomRaises(file)
    THEN [raised |-> FALSE, ret |-> file.modality = "MR", screen |-> <<>>]
    ELSE IF file.raster = "ok"
    THEN [raised |-> FALSE, ret |-> TRUE, screen |-> <<>>]
    ELSE [raised |-> FALSE, ret |-> FALSE,
          screen |-> <<ValidationWarning(RasterError(file))>>]

----------------------------------------------------------------------------
(* Tumor Detection: the stages of the Predict pipeline *)

\* texts of the exceptions a library call may raise
Errors == {"RuntimeError: out of memory", "ValueError: bad input"}

ProbUnits == 2

\* outputs of model.predict: four probabilities in units of 1/ProbUnits, summing to 1
PredictionVectors ==
    {v \in [1..Len(categories) -> 0..ProbUnits] : v[1] + v[2] + v[3] + v[4] = ProbUnits}

\* np.max(predictions)
NpMax(v) == CHOOSE x \in {v[i] : i \in DOMAIN v} : \A i \in DOMAIN v : v[i] <= x

\* np.argmax(predictions): the first index holding the maximum (1-based here)
NpArgmax(v) == CHOOSE i \in DOMAIN v : v[i] = NpMax(v) /\ \A j \in DOMAIN v : j < i => v[j] < v[i]

\* one call to an external service: its argument and how it ended ("ok" or the error)
Call(svc, arg, outcome) == [svc |-> svc, arg |-> arg, outcome |-> outcome]

\* the two ways model.predict ends: it returns a vector or raises an exception
Returns(v) == [raised |-> FALSE, value |-> v, error |-> ""]

Raises(e) == [raised |-> TRUE, value |-> <<>>, error |-> e]

InferOutcomes == {Returns(v) : v \in PredictionVectors} \cup {Raises(e) : e \in Errors}

\* predict with an except clause that falls back to the first category
predict_default(infer) ==
    IF infer.raised
    THEN [ret |-> <<[tumor_type |-> categories[1], confidence |-> 0]>>,
          screen |-> <<El("error", "Error in prediction: {e}", infer.error, 0)>>]
    ELSE [ret |-> <<[tumor_type |-> categories[NpArgmax(infer.value)],
                     confidence |-> NpMax(infer.value)]>>,
          screen |-> <<>>]

\* predict(image), infer being what model.predict does; ret <<>> is (None, None)
predict(infer) ==
    IF infer.raised
    THEN [ret |-> <<>>,
          screen |-> <<El("error", "Error in prediction: {e}", infer.error, 0)>>]
    ELSE [ret |-> <<[tumor_type |-> categories[NpArgmax(infer.value)],
                     confidence |-> NpMax(infer.value)]>>,
          screen |-> <<>>]

\* explain_prediction(image, model) when LIME returns (lime = "ok") or raises
explain_prediction(lime) ==
    IF lime \in Errors
    THEN <<El("error", "Error in explanation: {e}", lime, 0)>>
    ELSE <<El("subheader", "OUTPUT of the SCAN :", "", 0),
           El("pyplot", "", "", 0)>>

WikiOutcomes == {"ok", "DisambiguationError", "PageError"} \cup Errors

\* the text wikipedia.summary returns for a title
Summary(title) == "Summary of " \o title

\* get_tumor_info(tumor_type): raised tells whether the exception leaves the function
get_tumor_info(tumor_type, wiki) ==
    CASE wiki = "ok" ->
            [raised |-> FALSE, value |-> Summary(tumor_type)]
      [] wiki = "DisambiguationError" ->
            [raised |-> FALSE,
             value |-> "Multiple results found for " \o tumor_type
                       \o ". Please specify further."]
      [] wiki = "PageError" ->
            [raised |-> FALSE,
             value |-> "No information found on Wikipedia for " \o tumor_type \o "."]
      [] OTHER ->
            [raised |-> TRUE, value |-> wiki]

\* speak_text(text) when the engine works (tts = "ok") or raises
speak_text(tts) ==
    IF tts \in Errors THEN <<El("error", "Error with TTS: {e}", tts, 0)>> ELSE <<>>

\* an exception no handler caught: Streamlit shows it and the run stops there
Uncaught(e) == <<El("exception", "uncaught", e, 0)>>

\* the body of "if st.button('Predict')": what it renders and which services it calls
PredictHandler(infer, lime, wiki, tts) ==
    LET p == predict(infer)
        inferred == Call("model.predict", "", IF infer.raised THEN infer.error ELSE "ok")
    IN
    IF p.ret = <<>>
    THEN [screen |-> p.screen, calls |-> <<inferred>>, ret |-> p.ret]
    ELSE
      LET prediction == p.ret[1].tumor_type
          info == get_tumor_info(prediction, wiki)
          upto == p.screen
                  \o <<El("write", "Prediction: {prediction}", prediction, 0)>>
                  \o explain_prediction(lime)
          called == <<inferred,
                      Call("explain_instance", "", lime),
                      Call("wikipedia.summary", prediction, wiki)>>
      IN IF info.raised
         THEN [screen |-> upto \o Uncaught(info.value), calls |-> called, ret |-> p.ret]
         ELSE [screen |-> upto
                          \o <<El("write", "Tumor Information: {tumor_info}", info.value, 0)>>
                          \o speak_text(tts),
               calls |-> Append(called, Call("engine.say", info.value, tts)),
               ret |-> p.ret]

TumorHeader == <<El("header", "Upload MRI for Tumor Detection", "", 0)>>

InvalidMri == El("error", "Invalid MRI image. Please upload a valid MRI image.", "", 0)

\* the run on the uploaded file up to the Predict button: the value the validator
\* returned, what is rendered, and whether the button is reached
UploadHandler(file) ==
    IF file = NoFile THEN [valid |-> <<>>, screen |-> TumorHeader, button |-> FALSE]
    ELSE LET v == is_valid_mri(file) IN
         IF v.raised
         THEN [valid |-> <<>>, button |-> FALSE,
               screen |-> TumorHeader \o v.screen \o Uncaught(RasterError(file))]
         ELSE IF ~v.ret
         THEN [valid |-> <<FALSE>>, button |-> FALSE,
               screen |-> TumorHeader \o v.screen \o <<InvalidMri>>]
         ELSE IF file.raster # "ok"
         THEN [valid |-> <<TRUE>>, button |-> FALSE,
               screen |-> TumorHeader \o v.screen \o Uncaught(RasterError(file))]
         ELSE [valid |-> <<TRUE>>, button |-> TRUE,
               screen |-> TumorHeader \o v.screen \o <<El("image", "Uploaded Image", "", 0)>>]

\* the user puts a file in the uploader, or removes it (NoFile)
Upload(file) ==
    /\ app_mode = "Tumor Detection"
    /\ file # uploaded_file
    /\ uploaded_file' = file
    /\ button' = ""
    /\ screen' = UploadHandler(file).screen
    /\ valid' = UploadHandler(file).valid
    /\ result' = <<>>
    /\ calls' = <<>>
    /\ UNCHANGED <<app_mode, symptom_selection, chat_session, user_prompt, probabilities>>

\* the user presses Predict
Predict(infer, lime, wiki, tts) ==
    /\ app_mode = "Tumor Detection"
    /\ UploadHandler(uploaded_file).button
    /\ button' = "Predict"
    /\ LET h == PredictHandler(infer, lime, wiki, tts) IN
        /\ screen' = UploadHandler(uploaded_file).screen \o h.screen
        /\ calls' = h.calls
        /\ result' = h.ret
    /\ valid' = UploadHandler(uploaded_file).valid
    /\ UNCHANGED <<app_mode, symptom_selection, uploaded_file, chat_session,
                   user_prompt, probabilities>>

----------------------------------------------------------------------------
(* HELP ASSIST *)

MaxTurns == 2

Prompts == {"What precautions should I take?", "Is it curable?"}

Replies == {"Please see a doctor.", "Rest and drink water."}

Msg(role, text) == [role |-> role, text |-> text]

translate_role_for_streamlit(user_role) ==
    IF user_role = "model" THEN "assistant" ELSE user_role

Apology == "Sorry, I couldn't fetch the response."

\* the text of the AttributeError raised when st.session_state has no chat_session
NoSessionError == "AttributeError: st.session_state has no attribute chat_session"

\* the text of the error raised when the response's text cannot be read
NoTextError == "ValueError: response has no text"

SendOutcomes == {"ok", NoTextError} \cup Errors

GeminiError(e) == El("error", "Error with Google Gemini API: {e}", e, 0)

\* "if 'chat_session' not in st.session_state": start_chat returns or raises
InitSession(session, start) ==
    IF session # <<>> THEN [session |-> session, screen |-> <<>>, calls |-> <<>>]
    ELSE IF start \in Errors
    THEN [session |-> <<>>,
          screen |-> <<El("error", "Error initializing chat session: {e}", start, 0)>>,
          calls |-> <<Call("start_chat", "", start)>>]
    ELSE [session |-> << <<>> >>, screen |-> <<>>,
          calls |-> <<Call("start_chat", "", "ok")>>]

\* the loop that displays the chat history
HistoryScreen(session) ==
    IF session = <<>> THEN <<>>
    ELSE [i \in 1..Len(session[1]) |->
            El("chat_message", translate_role_for_streamlit(session[1][i].role),
               session[1][i].text, 0)]

\* the response with the error text handed back as the answer
get_chatbot_response_raw(session, query, send, reply) ==
    IF session = <<>>
    THEN [value |-> NoSessionError, session |-> session,
          screen |-> <<GeminiError(NoSessionError)>>, calls |-> <<>>]
    ELSE IF send \in Errors
    THEN [value |-> send, session |-> session,
          screen |-> <<GeminiError(send)>>,
          calls |-> <<Call("send_message", query, send)>>]
    ELSE LET sent == <<session[1] \o <<Msg("user", query), Msg("model", reply)>> >> IN
         IF send = NoTextError
         THEN [value |-> send, session |-> sent,
               screen |-> <<GeminiError(send)>>,
               calls |-> <<Call("send_message", query, send)>>]
         ELSE [value |-> reply, session |-> sent, screen |-> <<>>,
               calls |-> <<Call("send_message", query, "ok")>>]

\* get_chatbot_response(query): send is what send_message does (NoTextError: it
\* returns and records the turn, but reading the response's text raises), reply
\* what the model answers
get_chatbot_response(session, query, send, reply) ==
    IF session = <<>>
    THEN [value |-> Apology, session |-> session,
          screen |-> <<GeminiError(NoSessionError)>>, calls |-> <<>>]
    ELSE IF send \in Errors
    THEN [value |-> Apology, session |-> session,
          screen |-> <<GeminiError(send)>>,
          calls |-> <<Call("send_message", query, send)>>]
    ELSE LET sent == <<session[1] \o <<Msg("user", query), Msg("model", reply)>> >> IN
         IF send = NoTextError
         THEN [value |-> Apology, session |-> sent,
               screen |-> <<GeminiError(send)>>,
               calls |-> <<Call("send_message", query, send)>>]
         ELSE [value |-> reply, session |-> sent, screen |-> <<>>,
               calls |-> <<Call("send_message", query, "ok")>>]

ChatHeader == <<El("header", "Chat with the Assist", "", 0)>>

\* the user sends a message in the chat input
ChatPrompt(prompt, start, send, reply) ==
    /\ app_mode = "HELP ASSIST"
    /\ chat_session # <<>> => Len(chat_session[1]) < 2 * MaxTurns
    /\ user_prompt' = <<prompt>>
    /\ LET i == InitSession(chat_session, start)
           r == get_chatbot_response(i.session, prompt, send, reply)
       IN
        /\ chat_session' = r.session
        /\ screen' = ChatHeader \o i.screen \o HistoryScreen(i.session)
                     \o <<El("chat_message", "user", prompt, 0)>>
                     \o r.screen
                     \o <<El("chat_message", "assistant", r.value, 0)>>
        /\ calls' = i.calls \o r.calls
    /\ UNCHANGED <<app_mode, symptom_selection, uploaded_file, button,
                   probabilities, valid, result>>

----------------------------------------------------------------------------
(* Navigation *)

\* the user picks another mode in the sidebar; the run renders that mode's page
SelectMode(m, start) ==
    /\ m \in Modes
    /\ m # app_mode
    /\ app_mode' = m
    /\ symptom_selection' = NoSelection
    /\ uploaded_file' = NoFile
    /\ button' = ""
    /\ user_prompt' = <<>>
    /\ probabilities' = <<>>
    /\ valid' = <<>>
    /\ result' = <<>>
    /\ IF m = "HELP ASSIST"
       THEN LET i == InitSession(chat_session, start) IN
             /\ chat_session' = i.session
             /\ screen' = ChatHeader \o i.screen \o HistoryScreen(i.session)
             /\ calls' = i.calls
       ELSE /\ chat_session' = chat_session
            /\ screen' = IF m = "Diagnosis Test" THEN DiagnosisHeader ELSE TumorHeader
            /\ calls' = <<>>

----------------------------------------------------------------------------
(* Specifications *)

Navigate == \E m \in Modes, start \in {"ok"} \cup Errors : SelectMode(m, start)

DiagNext ==
    \/ \E s \in AllSymptoms : ToggleSymptom(s)
    \/ Diagnose

TumorNext ==
    \/ Navigate
    \/ \E file \in Files \cup {NoFile} : Upload(file)
    \/ \E infer \in InferOutcomes, lime \in {"ok"} \cup Errors,
          wiki \in WikiOutcomes, tts \in {"ok"} \cup Errors :
            Predict(infer, lime, wiki, tts)

ChatNext ==
    \/ Navigate
    \/ \E prompt \in Prompts, start \in {"ok"} \cup Errors,
          send \in SendOutcomes, reply \in Replies :
            ChatPrompt(prompt, start, send, reply)

Next == DiagNext \/ TumorNext \/ ChatNext

\* the Diagnosis Test page, the mode the application starts in
DiagSpec == Init /\ [][DiagNext]_vars

\* navigation and the Tumor Detection page
TumorSpec == Init /\ [][TumorNext]_vars

\* navigation and the HELP ASSIST page
ChatSpec == Init /\ [][ChatNext]_vars

Spec == Init /\ [][Next]_vars

----------------------------------------------------------------------------
(* Vocabulary of the properties, taken from the symptom table and the page *)

\* the symptoms whose check box is ticked
SelectedSet == {s \in AllSymptoms : symptom_selection[s]}

\* the symptoms listed for a condition
Listed(c) == {symptoms[c][i] : i \in 1..Len(symptoms[c])}

\* how many of the condition's listed symptoms are ticked
Matches(c) == Cardinality(Listed(c) \cap SelectedSet)

Shown(e) == \E i \in 1..Len(screen) : screen[i] = e

ShownMsg(w, msg) == \E i \in 1..Len(screen) : screen[i].w = w /\ screen[i].msg = msg

ClashWarning ==
    El("warning",
       "There may be a clash between multiple conditions. Please consult a doctor.", "", 0)

NoMatchWarning ==
    El("warning",
       "No matching conditions found. Please consult a doctor for further evaluation.", "", 0)

SelectOneWarning == El("warning", "Please select at least one symptom.", "", 0)

ResultLineMsg == "{condition}: {probability:.2f}%"

\* the run scored a non-empty selection
Diagnosed == button = "Diagnose" /\ SelectedSet # {}

\* condition c has the highest ratio of matches, by the table alone
AtTop(c) ==
    \A d \in Conditions :
        Matches(d) * Cardinality(Listed(c)) <= Matches(c) * Cardinality(Listed(d))

Called(svc) == \E i \in 1..Len(calls) : calls[i].svc = svc

Failed(svc) == \E i \in 1..Len(calls) : calls[i].svc = svc /\ calls[i].outcome # "ok"

HasUncaught == \E i \in 1..Len(screen) : screen[i].w = "exception"

----------------------------------------------------------------------------
(* Diagnosis Test properties *)

\* C1: after Diagnose on a non-empty selection, the dict holds for each of the four
\* conditions exactly matches / listed * 100, and the page shows one line per
\* condition with that percentage rounded to two decimals.
C1_PerConditionPercentage ==
    Diagnosed =>
        /\ probabilities # <<>>
        /\ DOMAIN probabilities[1] = Conditions
        /\ Cardinality(Conditions) = 4
        /\ \A c \in Conditions :
            /\ probabilities[1][c].num * Cardinality(Listed(c))
                 = 100 * Matches(c) * probabilities[1][c].den
            /\ \E i \in 1..Len(screen) :
                /\ screen[i].w = "write"
                /\ screen[i].msg = ResultLineMsg
                /\ screen[i].arg = c
                /\ 2 * (screen[i].val * Cardinality(Listed(c)) - 10000 * Matches(c))
                     <= Cardinality(Listed(c))
                /\ 2 * (10000 * Matches(c) - screen[i].val * Cardinality(Listed(c)))
                     <= Cardinality(Listed(c))

\* a scored selection giving Glioma 3/7, Pituitary Tumor 1/7 and No Tumor 0
C1_Witness ==
    /\ Diagnosed
    /\ Matches("Glioma") = 3
    /\ Matches("Pituitary Tumor") = 1
    /\ Matches("No Tumor") = 0
    /\ Shown(El("write", ResultLineMsg, "Glioma", 4286))
    /\ Shown(El("write", ResultLineMsg, "Pituitary Tumor", 1429))

\* With a non-empty selection some condition always matches, so the maximum is
\* never zero and the "no match" warning is never rendered.
MaxNeverZero ==
    Diagnosed => (\E c \in Conditions : Matches(c) > 0) /\ ~Shown(NoMatchWarning)

\* C3: when more than one condition reaches the maximum percentage the clash
\* warning is rendered, the only lines naming a condition are the four result
\* lines, and {Headaches, Seizures} is such a selection.
C3_TieIsAmbiguous ==
    /\ (Diagnosed /\ Cardinality({c \in Conditions : AtTop(c)}) > 1) =>
            /\ Shown(ClashWarning)
            /\ \A i \in 1..Len(screen) :
                   screen[i].arg \in Conditions => screen[i].msg = ResultLineMsg
    /\ (button = "Diagnose" /\ SelectedSet = {"Headaches", "Seizures"}) =>
            Shown(ClashWarning)

\* Diagnose pressed with exactly Headaches and Seizures ticked
C3_Witness ==
    /\ button = "Diagnose"
    /\ SelectedSet = {"Headaches", "Seizures"}
    /\ AtTop("Glioma") /\ AtTop("Meningioma") /\ ~AtTop("Pituitary Tumor")
    /\ Shown(El("write", ResultLineMsg, "Glioma", 2857))
    /\ Shown(El("write", ResultLineMsg, "Meningioma", 2857))

\* C4: Diagnose with nothing ticked renders only the "select at least one" warning:
\* no dict is computed, no result line and neither tie warning is rendered.
C4_EmptySelectionRejected ==
    (button = "Diagnose" /\ SelectedSet = {}) =>
        /\ screen = DiagnosisHeader \o <<SelectOneWarning>>
        /\ probabilities = <<>>
        /\ ~ShownMsg("write", ResultLineMsg)
        /\ ~ShownMsg("write", "Diagnosis Result:")
        /\ ~Shown(ClashWarning)
        /\ ~Shown(NoMatchWarning)

C4_Witness == button = "Diagnose" /\ SelectedSet = {} /\ Shown(SelectOneWarning)

----------------------------------------------------------------------------
(* Tumor Detection properties *)

\* C5: when model.predict raises during Predict, the error is rendered, predict
\* returns no result, nothing escapes, and model.predict is the only service called.
C5_InferenceFailureShortCircuits ==
    (button = "Predict" /\ Failed("model.predict")) =>
        /\ Shown(El("error", "Error in prediction: {e}", calls[1].outcome, 0))
        /\ result = <<>>
        /\ ~HasUncaught
        /\ ~Called("explain_instance")
        /\ ~Called("wikipedia.summary")
        /\ ~Called("engine.say")
        /\ ~ShownMsg("write", "Prediction: {prediction}")
        /\ ~ShownMsg("write", "Tumor Information: {tumor_info}")

C5_Witness ==
    /\ button = "Predict"
    /\ calls = <<Call("model.predict", "", "RuntimeError: out of memory")>>
    /\ ShownMsg("error", "Error in prediction: {e}")

\* C6: when the explanation fails after a successful classification, the error is
\* rendered and both the lookup and the speech run, on the classifier's category.
C6_ExplainerFailureNonFatal ==
    (button = "Predict" /\ Failed("explain_instance")) =>
        /\ result # <<>>
        /\ ShownMsg("error", "Error in explanation: {e}")
        /\ \E i \in 1..Len(calls) :
              calls[i].svc = "wikipedia.summary" /\ calls[i].arg = result[1].tumor_type
        /\ Called("engine.say")

\* C7: whatever the lookup raises, get_tumor_info hands back a text: nothing
\* escapes, the text is rendered and the speech runs on it.
C7_LookupNeverPropagates ==
    (button = "Predict" /\ Failed("wikipedia.summary")) =>
        /\ ~HasUncaught
        /\ \E i \in 1..Len(screen), j \in 1..Len(calls) :
              /\ screen[i].msg = "Tumor Information: {tumor_info}"
              /\ calls[j].svc = "engine.say"
              /\ calls[j].arg = screen[i].arg

\* the validator returned False in this run
Rejected == valid = <<FALSE>>

\* C8 as stated: every rejection comes with a warning carrying an error text.
C8_EveryRejectionWarns ==
    Rejected => \E i \in 1..Len(screen) :
                    /\ screen[i].w = "warning"
                    /\ screen[i].msg = "Image validation failed: {e}"
                    /\ screen[i].arg # ""

\* C8 amended: a rejection after the container parse (or the read of its modality
\* tag) failed comes with a warning carrying the raster decode's error text; a
\* rejection of a parsed container whose modality is not MR comes with none.
C8_RejectionWarnsOnDecodeFailure ==
    Rejected =>
        IF uploaded_file.dcm = "raise" \/ uploaded_file.modality = "absent"
        THEN Shown(El("warning", "Image validation failed: {e}",
                      "UnidentifiedImageError: cannot identify image file", 0))
        ELSE ~ShownMsg("warning", "Image validation failed: {e}")

C8_Witness ==
    /\ Rejected
    /\ uploaded_file.dcm = "raise"
    /\ uploaded_file.raster = "raise"
    /\ ShownMsg("warning", "Image validation failed: {e}")
    /\ Shown(InvalidMri)

\* C9: on every uploaded file the validator returns a value (it never raises), and
\* it accepts exactly an MR container, or, when the container parse or the read of
\* the modality tag fails, a file the raster decoder opens.
C9_ValidatorDecision ==
    /\ uploaded_file = NoFile => valid = <<>>
    /\ uploaded_file # NoFile =>
        /\ valid # <<>>
        /\ valid[1] =
             (\/ uploaded_file.dcm = "ok" /\ uploaded_file.modality = "MR"
              \/ /\ uploaded_file.dcm = "raise" \/ uploaded_file.modality = "absent"
                 /\ uploaded_file.raster = "ok")
        /\ ~valid[1] <=> Shown(InvalidMri)

\* a JPEG: no container, no modality tag, decodable, accepted and displayed
C9_Witness ==
    /\ uploaded_file = [dcm |-> "raise", modality |-> "absent", raster |-> "ok"]
    /\ valid = <<TRUE>>
    /\ ShownMsg("image", "Uploaded Image")

----------------------------------------------------------------------------
(* HELP ASSIST properties *)

\* the chat turn of this run did not get an answer from the service
SendFailed == user_prompt # <<>> /\ (~Called("send_message") \/ Failed("send_message"))

AssistantSays(text) ==
    /\ screen # <<>>
    /\ screen[Len(screen)] = El("chat_message", "assistant", text, 0)

\* C10 as stated: a failed chat turn answers with the apology and renders no error.
C10_ApologyWithoutRawError ==
    SendFailed =>
        /\ AssistantSays(Apology)
        /\ ~ShownMsg("error", "Error with Google Gemini API: {e}")

\* C10 amended: a failed chat turn answers with the apology, and the text of the
\* error is rendered in an error box above it.
C10_ApologyWithRawError ==
    SendFailed =>
        /\ AssistantSays(Apology)
        /\ \E i \in 1..Len(screen) :
              /\ screen[i].w = "error"
              /\ screen[i].msg = "Error with Google Gemini API: {e}"
              /\ screen[i].arg # ""
              /\ \/ Failed("send_message") /\ screen[i].arg = calls[Len(calls)].outcome
                 \/ ~Called("send_message") /\ chat_session = <<>>
                                            /\ screen[i].arg = NoSessionError

\* a chat turn sent while the session never started
C10_Witness ==
    /\ SendFailed
    /\ chat_session = <<>>
    /\ Failed("start_chat")
    /\ AssistantSays(Apology)

====
